---- MODULE Spec2Model ----
(***************************************************************************)
(* Session detection, session statistics, patterns and typology, and the   *)
(* rule-based listening-context classification and statistics of           *)
(* SpotifyFeaturesMixin (spotify_features.py), with load_data of           *)
(* SpotifyAnalyzer (spotify_analyzer.py).                                  *)
(*                                                                         *)
(* Time is counted in seconds since 2022-01-01 00:00:00 (a Saturday).      *)
(* A row's minutes_played is held in seconds (60 * minutes_played), energy *)
(* in hundredths (100 * energy), tempo in BPM.  A null (NaN / None) cell   *)
(* is the value NaN; every comparison with it is false, as in IEEE 754.    *)
(***************************************************************************)
EXTENDS Integers, Sequences, FiniteSets, TLC

\* ------------------------------------------------------------------ bounds
MaxEvents == 3          \* rows of a generated session table
MaxTime == 3            \* end timestamps 0 .. MaxTime minutes
MaxGap == 1             \* thresholds 0 .. MaxGap minutes (and the default)
MaxContentEvents == 4   \* rows of a generated table with several artists
NumArtists == 3         \* distinct artist names of those tables
MaxRecords == 2         \* records of the files load_data reads
MaxLengthEvents == 2    \* rows of a generated table of long plays
MaxReportEvents == 3    \* rows of a generated table of the session reports
MaxPredictEvents == 2   \* rows of a generated table for the predictor
MaxSuggestEvents == 3   \* rows of a generated table for the suggestions
MaxLimit == 2           \* limits 0 .. MaxLimit (and the default)

\* ------------------------------------------------------- program constants
SecondsPerMinute == 60
SecondsPerHour == 3600
SecondsPerDay == 86400
EpochWeekday == 5
DefaultGapThreshold == 30
SkipThreshold == 30
MaxDepth == 5
DefaultEnergy == 50
DefaultTempo == 120
HighEnergy == 70
LowEnergy == 50
HighTempo == 120
NaN == -1

Contexts == {"workout", "commute", "work", "party", "relaxation", "other"}
SessionTypes == {"single_artist", "album_listening", "variety", "mixed"}
NoContext == "none"

\* The attribute context_model unset; a stored model is a record with
\* stored = TRUE.
NoModel == [stored |-> FALSE]

\* The attribute context_features unset; a stored list has two or more
\* features.
NoFeatures == <<>>

\* --------------------------------------------------------------- the table
\* One row of self.df.  idx is the row's index label.
Row(i, t, played, artist, e, tp) ==
    [idx |-> i, endTime |-> t, minutes_played |-> played, artistName |-> artist,
     energy |-> e, tempo |-> tp, context |-> NoContext]

hour(t) == (t \div SecondsPerHour) % 24
weekday(t) == (EpochWeekday + (t \div SecondsPerDay)) % 7

\* Float comparisons: false whenever the left operand is null.
FGt(x, y) == x # NaN /\ x > y
FLt(x, y) == x # NaN /\ x < y

Range(s) == {s[i] : i \in DOMAIN s}

\* ------------------------------------------------------- detect_sessions
\* sort_values('endTime').  Rows with equal end timestamps are left in an
\* order the sort kind decides (the default kind is not stable): original
\* order ("stable"), or the reverse.
SortValuesUnsorted(table, tie) == table

\* Where row x, met after the rows of s, goes in the sorted prefix s.
RECURSIVE insert_sorted(_, _, _, _)
insert_sorted(s, x, tie, k) ==
    IF k > Len(s) THEN Append(s, x)
    ELSE IF \/ x.endTime < s[k].endTime
            \/ (x.endTime = s[k].endTime /\ tie # "stable")
         THEN SubSeq(s, 1, k - 1) \o <<x>> \o SubSeq(s, k, Len(s))
         ELSE insert_sorted(s, x, tie, k + 1)

RECURSIVE sort_prefix(_, _, _)
sort_prefix(table, tie, n) ==
    IF n = 0 THEN <<>>
    ELSE insert_sorted(sort_prefix(table, tie, n - 1), table[n], tie, 1)

\* self.df.sort_values('endTime'): a sorted copy, self.df is not changed.
sort_values(table, tie) == sort_prefix(table, tie, Len(table))

\* time_diff_minutes.isna() | (time_diff_minutes > gap_threshold); the diff
\* of the first row is null.
NewSessionGe(isFirst, diff, gap_threshold) ==
    isFirst \/ diff >= gap_threshold * SecondsPerMinute

NewSessionLt(isFirst, diff, gap_threshold) ==
    isFirst \/ diff < gap_threshold * SecondsPerMinute

new_session(isFirst, diff, gap_threshold) ==
    isFirst \/ diff > gap_threshold * SecondsPerMinute

\* session_id = new_session.cumsum() - 1 and groupby('session_id'): the id
\* grows by one at every row that starts a session, so the groups, in id
\* order, are the runs of the sorted rows between two such rows.
RECURSIVE groupby(_, _, _, _)
groupby(sorted, gap_threshold, i, acc) ==
    IF i > Len(sorted) THEN acc
    ELSE groupby(sorted, gap_threshold, i + 1,
           IF new_session(i = 1,
                          IF i = 1 THEN 0
                          ELSE sorted[i].endTime - sorted[i - 1].endTime,
                          gap_threshold)
           THEN Append(acc, <<sorted[i]>>)
           ELSE [acc EXCEPT ![Len(acc)] = Append(@, sorted[i])])

DetectedSessions(table, gap_threshold, tie) ==
    IF Len(table) = 0 THEN <<>>
    ELSE groupby(sort_values(table, tie), gap_threshold, 1, <<>>)

\* self.sessions = sessions
StoreSessionsExtend(old, new) == old \o new

store_sessions(old, new) == new

\* ----------------------------------------------- session_content_analysis
nunique(session) == Cardinality({session[i].artistName : i \in DOMAIN session})

SessionTypeAlbumFirst(session) ==
    IF Len(session) > 3 /\ nunique(session) <= 2 THEN "album_listening"
    ELSE IF Len(session) > 1 /\ nunique(session) = 1 THEN "single_artist"
    ELSE IF Len(session) > 1 /\ 10 * nunique(session) > 8 * Len(session)
         THEN "variety"
    ELSE "mixed"

\* The if / elif chain of the "Classify sessions" loop; the ratio test
\* nunique / len > 0.8 is taken in tenths.
session_type(session) ==
    IF Len(session) > 1 /\ nunique(session) = 1 THEN "single_artist"
    ELSE IF Len(session) > 3 /\ nunique(session) <= 2 THEN "album_listening"
    ELSE IF Len(session) > 1 /\ 10 * nunique(session) > 8 * Len(session)
         THEN "variety"
    ELSE "mixed"

\* Counter(session_types): a key for every type that occurs.
Counter(items) ==
    [t \in Range(items) |-> Cardinality({i \in DOMAIN items : items[i] = t})]

session_types(stored) == [i \in DOMAIN stored |-> session_type(stored[i])]

RECURSIVE Sum(_)
Sum(values) == IF values = <<>> THEN 0 ELSE values[1] + Sum(Tail(values))

\* ------------------------------ session_content_analysis: content metrics
\* Sessions with more than one event, in stored order.
RECURSIVE multi_track(_)
multi_track(stored) ==
    IF stored = <<>> THEN <<>>
    ELSE IF Len(stored[1]) > 1 THEN <<stored[1]>> \o multi_track(Tail(stored))
    ELSE multi_track(Tail(stored))

\* same_artist_count / (len(session) - 1)
continuity(session) ==
    [num |-> Cardinality({i \in 1..(Len(session) - 1) :
                            session[i].artistName = session[i + 1].artistName}),
     den |-> Len(session) - 1]

\* session['artistName'].nunique() / len(session)
unique_ratio(session) == [num |-> nunique(session), den |-> Len(session)]

ArtistContinuityWithSingles(stored) ==
    [k \in DOMAIN stored |->
        IF Len(stored[k]) > 1 THEN continuity(stored[k]) ELSE [num |-> 0, den |-> 1]]

\* The list artist_continuity: one entry per session of more than one event.
artist_continuity(stored) ==
    [k \in DOMAIN multi_track(stored) |-> continuity(multi_track(stored)[k])]

unique_artists_ratio(stored) ==
    [k \in DOMAIN multi_track(stored) |-> unique_ratio(multi_track(stored)[k])]

RECURSIVE ProductOfDens(_)
ProductOfDens(fracs) ==
    IF fracs = <<>> THEN 1 ELSE fracs[1].den * ProductOfDens(Tail(fracs))

\* np.mean(list) if list else 0, over fractions, as one fraction.
mean_or_zero(fracs) ==
    IF fracs = <<>> THEN [num |-> 0, den |-> 1]
    ELSE LET common == ProductOfDens(fracs)
         IN  [num |-> Sum([k \in DOMAIN fracs |->
                              fracs[k].num * (common \div fracs[k].den)]),
              den |-> common * Len(fracs)]

\* ---------------------------------------------------- session_statistics
Min(S) == CHOOSE x \in S : \A y \in S : x <= y
Max(S) == CHOOSE x \in S : \A y \in S : x >= y

EndTimes(session) == {session[m].endTime : m \in DOMAIN session}

FirstTrackStartNoDuration(session) == Min(EndTimes(session))

\* session['endTime'].min() - pd.Timedelta(minutes=session.iloc[0]['minutes_played'])
first_track_start(session) ==
    Min(EndTimes(session)) - session[1].minutes_played

SessionLengthBetweenEnds(session) ==
    IF Len(session) > 1
    THEN Max(EndTimes(session)) - Min(EndTimes(session))
    ELSE session[1].minutes_played

\* length_minutes of one session (held in seconds).
session_length(session) ==
    IF Len(session) > 1
    THEN Max(EndTimes(session)) - first_track_start(session)
    ELSE session[1].minutes_played

session_lengths(stored) == [k \in DOMAIN stored |-> session_length(stored[k])]

TracksPerSessionArtists(stored) == [k \in DOMAIN stored |-> nunique(stored[k])]

tracks_per_session(stored) == [k \in DOMAIN stored |-> Len(stored[k])]

artists_per_session(stored) == [k \in DOMAIN stored |-> nunique(stored[k])]

\* np.mean of a non-empty list, as the fraction sum / count.
mean(values) == [num |-> Sum(values), den |-> Len(values)]

\* The m-th smallest of the values.
kth(values, m) ==
    CHOOSE v \in Range(values) :
        /\ Cardinality({i \in DOMAIN values : values[i] < v}) < m
        /\ Cardinality({i \in DOMAIN values : values[i] <= v}) >= m

\* np.median: the middle value, or the mean of the two middle values.
median(values) ==
    LET n == Len(values)
    IN  IF n % 2 = 1 THEN [num |-> kth(values, (n + 1) \div 2), den |-> 1]
        ELSE [num |-> kth(values, n \div 2) + kth(values, n \div 2 + 1), den |-> 2]

\* hist_edges = [0, 15, 30, 60, 120, 240, inf], in minutes.
hist_edges == <<0, 15, 30, 60, 120, 240>>

\* f"{low}-{high}min" if high < inf else f"{low}min+"
hist_ranges ==
    <<"0-15min", "15-30min", "30-60min", "60-120min", "120-240min", "240min+">>

InBinRightClosed(length, b) ==
    /\ length > hist_edges[b] * SecondsPerMinute
    /\ (b = Len(hist_edges) \/ length <= hist_edges[b + 1] * SecondsPerMinute)

\* np.histogram: bin b holds edge[b] <= x < edge[b+1]; the last bin runs to
\* infinity.
in_bin(length, b) ==
    /\ length >= hist_edges[b] * SecondsPerMinute
    /\ (b = Len(hist_edges) \/ length < hist_edges[b + 1] * SecondsPerMinute)

\* dict(zip(hist_ranges, hist_counts))
length_distribution(lengths) ==
    [label \in Range(hist_ranges) |->
        LET b == CHOOSE i \in DOMAIN hist_ranges : hist_ranges[i] = label
        IN  Cardinality({k \in DOMAIN lengths : in_bin(lengths[k], b)})]

\* The dictionary returned when self.sessions is empty.
empty_statistics ==
    [total_sessions |-> 0, avg_session_length |-> 0, median_session_length |-> 0,
     avg_tracks_per_session |-> 0, avg_artists_per_session |-> 0]

\* The dictionary returned for a non-empty session list.
statistics(stored) ==
    LET lengths == session_lengths(stored)
    IN  [total_sessions |-> Len(stored),
         avg_session_length |-> mean(lengths),
         median_session_length |-> median(lengths),
         avg_tracks_per_session |-> mean(tracks_per_session(stored)),
         avg_artists_per_session |-> mean(artists_per_session(stored)),
         session_length_distribution |-> length_distribution(lengths),
         longest_session_minutes |-> Max(Range(lengths)),
         shortest_session_minutes |-> Min(Range(lengths))]

\* ------------------------------------------------------ session_patterns
all_weekdays ==
    <<"Monday", "Tuesday", "Wednesday", "Thursday", "Friday", "Saturday", "Sunday">>

all_months ==
    <<"January", "February", "March", "April", "May", "June",
      "July", "August", "September", "October", "November", "December">>

\* Days of 2022 before the end of each month.
MonthEnds == <<31, 59, 90, 120, 151, 181, 212, 243, 273, 304, 334, 365>>

\* start_time.strftime('%A')
weekday_name(t) == all_weekdays[weekday(t) + 1]

\* start_time.strftime('%B'), for December 2021 and the year 2022.
month_name(t) ==
    LET d == t \div SecondsPerDay
    IN  IF d < 0 THEN "December"
        ELSE all_months[Min({m \in DOMAIN MonthEnds : d < MonthEnds[m]})]

session_starts(stored) == [k \in DOMAIN stored |-> first_track_start(stored[k])]

\* Counter(...) read with .get(key, 0) for every key of the fixed lists.
patterns(stored) ==
    LET starts == session_starts(stored)
    IN  [by_hour |-> [h \in 0..23 |->
                        Cardinality({k \in DOMAIN starts : hour(starts[k]) = h})],
         by_weekday |-> [w \in Range(all_weekdays) |->
                        Cardinality({k \in DOMAIN starts : weekday_name(starts[k]) = w})],
         by_month |-> [m \in Range(all_months) |->
                        Cardinality({k \in DOMAIN starts : month_name(starts[k]) = m})]]

empty_patterns == [by_hour |-> <<>>, by_weekday |-> <<>>, by_month |-> <<>>]

\* ------------------------------------------ categorize_listening_contexts
has_audio_features(cols) == {"energy", "tempo"} \subseteq cols

DetermineContextCommuteFirst(row, has_audio) ==
    LET energy == IF has_audio THEN row.energy ELSE DefaultEnergy
        tempo == IF has_audio THEN row.tempo ELSE DefaultTempo
        h == hour(row.endTime)
        wd == weekday(row.endTime)
    IN  IF wd < 5 /\ ((7 <= h /\ h <= 9) \/ (16 <= h /\ h <= 19)) THEN "commute"
        ELSE IF /\ has_audio /\ FGt(energy, HighEnergy) /\ FGt(tempo, HighTempo)
                /\ ((5 <= h /\ h <= 9) \/ (17 <= h /\ h <= 20)) THEN "workout"
        ELSE IF wd < 5 /\ 9 <= h /\ h <= 17
                /\ (~has_audio \/ FLt(energy, HighEnergy)) THEN "work"
        ELSE IF wd >= 5 /\ h >= 20
                /\ (~has_audio \/ FGt(energy, HighEnergy)) THEN "party"
        ELSE IF h >= 20 /\ (~has_audio \/ FLt(energy, LowEnergy)) THEN "relaxation"
        ELSE "other"

DetermineContextWorkFirst(row, has_audio) ==
    LET energy == IF has_audio THEN row.energy ELSE DefaultEnergy
        tempo == IF has_audio THEN row.tempo ELSE DefaultTempo
        h == hour(row.endTime)
        wd == weekday(row.endTime)
    IN  IF /\ has_audio /\ FGt(energy, HighEnergy) /\ FGt(tempo, HighTempo)
           /\ ((5 <= h /\ h <= 9) \/ (17 <= h /\ h <= 20)) THEN "workout"
        ELSE IF wd < 5 /\ 9 <= h /\ h <= 17
                /\ (~has_audio \/ FLt(energy, HighEnergy)) THEN "work"
        ELSE IF wd < 5 /\ ((7 <= h /\ h <= 9) \/ (16 <= h /\ h <= 19)) THEN "commute"
        ELSE IF wd >= 5 /\ h >= 20
                /\ (~has_audio \/ FGt(energy, HighEnergy)) THEN "party"
        ELSE IF h >= 20 /\ (~has_audio \/ FLt(energy, LowEnergy)) THEN "relaxation"
        ELSE "other"

DetermineContextAlwaysAudio(row, has_audio) ==
    LET energy == row.energy
        tempo == row.tempo
        h == hour(row.endTime)
        wd == weekday(row.endTime)
    IN  IF /\ FGt(energy, HighEnergy) /\ FGt(tempo, HighTempo)
           /\ ((5 <= h /\ h <= 9) \/ (17 <= h /\ h <= 20)) THEN "workout"
        ELSE IF wd < 5 /\ ((7 <= h /\ h <= 9) \/ (16 <= h /\ h <= 19)) THEN "commute"
        ELSE IF wd < 5 /\ 9 <= h /\ h <= 17 /\ FLt(energy, HighEnergy) THEN "work"
        ELSE IF wd >= 5 /\ h >= 20 /\ FGt(energy, HighEnergy) THEN "party"
        ELSE IF h >= 20 /\ FLt(energy, LowEnergy) THEN "relaxation"
        ELSE "other"

\* row.get('energy', 0.5) returns the cell, null included, whenever the
\* column exists; the default is used only when has_audio_features is false.
determine_context(row, has_audio) ==
    LET energy == IF has_audio THEN row.energy ELSE DefaultEnergy
        tempo == IF has_audio THEN row.tempo ELSE DefaultTempo
        h == hour(row.endTime)
        wd == weekday(row.endTime)
    IN  IF /\ has_audio /\ FGt(energy, HighEnergy) /\ FGt(tempo, HighTempo)
           /\ ((5 <= h /\ h <= 9) \/ (17 <= h /\ h <= 20)) THEN "workout"
        ELSE IF wd < 5 /\ ((7 <= h /\ h <= 9) \/ (16 <= h /\ h <= 19)) THEN "commute"
        ELSE IF wd < 5 /\ 9 <= h /\ h <= 17
                /\ (~has_audio \/ FLt(energy, HighEnergy)) THEN "work"
        ELSE IF wd >= 5 /\ h >= 20
                /\ (~has_audio \/ FGt(energy, HighEnergy)) THEN "party"
        ELSE IF h >= 20 /\ (~has_audio \/ FLt(energy, LowEnergy)) THEN "relaxation"
        ELSE "other"

\* ------------------------------- train_context_predictor / predict_context
AudioFeatures == <<"energy", "tempo", "danceability", "valence">>

\* The cell of a row in a feature column; hour and weekday are the calendar
\* columns derived from endTime.
cell(row, f) ==
    CASE f = "hour" -> hour(row.endTime)
      [] f = "weekday" -> weekday(row.endTime)
      [] f = "energy" -> row.energy
      [] f = "tempo" -> row.tempo
      [] f = "danceability" -> row.danceability
      [] f = "valence" -> row.valence

\* features = ['hour', 'weekday'] + the audio features that are columns;
\* available_features keeps those of them that are columns.
available_features(cols) ==
    SelectSeq(<<"hour", "weekday">> \o SelectSeq(AudioFeatures, LAMBDA f : f \in cols),
              LAMBDA f : f \in cols)

DropnaKeepsNullFeatures(table, feats) ==
    SelectSeq(table, LAMBDA r : r.context # NoContext)

\* self.df.dropna(subset=available_features + ['context'])
dropna(table, feats) ==
    SelectSeq(table, LAMBDA r : /\ \A k \in DOMAIN feats : cell(r, feats[k]) # NaN
                                /\ r.context # NoContext)

\* X and y of the fit: one sample per row of train_data.
samples_of(train_data, feats) ==
    [i \in DOMAIN train_data |->
        [x |-> [k \in DOMAIN feats |-> cell(train_data[i], feats[k])],
         y |-> train_data[i].context]]

\* The classes in the order of classes_ (sorted labels).
ClassOrder == <<"commute", "other", "party", "relaxation", "work", "workout">>

class_count(data, node, c) == Cardinality({i \in node : data[i].y = c})

\* Sum over the classes of the squared class counts of a node.
sq_count(data, node) ==
    Sum([c \in DOMAIN ClassOrder |->
            class_count(data, node, ClassOrder[c]) * class_count(data, node, ClassOrder[c])])

\* The class a leaf predicts: the first of the most frequent classes.
leaf_label(data, node) ==
    LET best == Max({class_count(data, node, ClassOrder[c]) : c \in DOMAIN ClassOrder})
    IN  ClassOrder[Min({c \in DOMAIN ClassOrder :
                           class_count(data, node, ClassOrder[c]) = best})]

is_pure(data, node) == \A i, j \in node : data[i].y = data[j].y

\* The candidate splits of a node on feature k: between two consecutive
\* distinct values a < b, at the midpoint (held as twice = a + b).
splits_on(data, node, k) ==
    LET values == {data[i].x[k] : i \in node}
    IN  {[feature |-> k, twice |-> a + b] :
            <<a, b>> \in {p \in values \X values :
                            /\ p[1] < p[2]
                            /\ ~\E v \in values : p[1] < v /\ v < p[2]}}

left_of(data, node, split) ==
    {i \in node : 2 * data[i].x[split.feature] <= split.twice}

\* The Gini proxy improvement of a split, sq_left / n_left + sq_right /
\* n_right, as a fraction.
proxy(data, node, split) ==
    LET left == left_of(data, node, split)
        right == node \ left
    IN  [num |-> sq_count(data, left) * Cardinality(right)
                   + sq_count(data, right) * Cardinality(left),
         den |-> Cardinality(left) * Cardinality(right)]

FracLt(p, q) == p.num * q.den < q.num * p.den

\* Per feature the splitter keeps the first threshold (in ascending order)
\* of the highest proxy; a later feature replaces the best split only with
\* a strictly higher proxy, and the classifier is built without
\* random_state, so the features are visited in an arbitrary order: any
\* feature that reaches the overall highest proxy can be the one chosen.
best_splits(data, node, nfeat) ==
    LET all == UNION {splits_on(data, node, k) : k \in 1..nfeat}
        score == [s \in all |-> proxy(data, node, s)]
        top == {s \in all : ~\E t \in all : FracLt(score[s], score[t])}
    IN  {s \in top : ~\E t \in top : t.feature = s.feature /\ t.twice < s.twice}

\* DecisionTreeClassifier(max_depth=5).fit(X, y): the trees the fit can
\* return.
RECURSIVE fit_node(_, _, _, _)
fit_node(data, node, nfeat, depth) ==
    LET splits == best_splits(data, node, nfeat)
    IN  IF depth = 0 \/ is_pure(data, node) \/ splits = {}
        THEN {[leaf |-> TRUE, label |-> leaf_label(data, node)]}
        ELSE UNION {
               {[leaf |-> FALSE, feature |-> s.feature, twice |-> s.twice,
                 left |-> l, right |-> r] :
                   l \in fit_node(data, left_of(data, node, s), nfeat, depth - 1),
                   r \in fit_node(data, node \ left_of(data, node, s), nfeat, depth - 1)} :
               s \in splits}

fit(data, nfeat) == fit_node(data, DOMAIN data, nfeat, MaxDepth)

\* Energy, danceability and valence are decimal fractions, which X (float32)
\* and the threshold (float64) hold rounded: a value exactly at the midpoint
\* falls on either side. Hours, weekday indices and tempos in whole BPM are
\* exact, and x <= threshold goes left.
RoundedFeatures == {"energy", "danceability", "valence"}

\* self.context_model.predict([features])[0]: the labels the tree can give.
RECURSIVE predict(_, _, _)
predict(tree, feats, x) ==
    IF tree.leaf THEN {tree.label}
    ELSE LET v == 2 * x[tree.feature]
             rounded == feats[tree.feature] \in RoundedFeatures
         IN  (IF v <= tree.twice THEN predict(tree.left, feats, x) ELSE {})
             \cup (IF v > tree.twice \/ (v = tree.twice /\ rounded)
                   THEN predict(tree.right, feats, x) ELSE {})

\* ------------------------------------------------------------------- state
VARIABLES
    df,           \* self.df: the event table, a sequence of rows
    columns,      \* the optional columns self.df has
    tieOrder,     \* how this build's sort orders equal end timestamps
    hasSessions,  \* hasattr(self, 'sessions')
    sessions,     \* self.sessions
    ret,          \* the last call, what it returned or raised, and (again)
                  \* whether it repeats the call before it
    context_model,    \* self.context_model, NoModel while the attribute is unset
    context_features  \* self.context_features, NoFeatures while unset

vars ==
    <<df, columns, tieOrder, hasSessions, sessions, ret,
      context_model, context_features>>

Thresholds == (0..MaxGap) \cup {DefaultGapThreshold}
TieOrders == {"stable", "reversed"}

\* Index labels 0, 1, ... in table order.
reindex(table) == [i \in DOMAIN table |-> [table[i] EXCEPT !.idx = i - 1]]

TablesOf(rows, maxLen) ==
    {reindex(t) : t \in UNION {[1..n -> rows] : n \in 0..maxLen}}

\* Plays are longer than the 30-second skip threshold (seconds); the long
\* one outlasts a gap of one or two minutes.
Durations == {45, 150}

SessionRows ==
    {Row(0, SecondsPerMinute * k, d, "Artist A", NaN, NaN) :
        k \in 0..MaxTime, d \in Durations}

AllArtistNames == <<"Artist A", "Artist B", "Artist C", "Artist D", "Artist E">>

ArtistNames == {AllArtistNames[a] : a \in 1..NumArtists}

ArtistNo(name) == CHOOSE a \in DOMAIN AllArtistNames : AllArtistNames[a] = name

\* The code compares end timestamps only by difference and order, and
\* artist names only for equality: generated tables have their earliest
\* event at time 0 and name their artists in order of first appearance.
StartsAtZero(table) ==
    table = <<>> \/ \E i \in DOMAIN table : table[i].endTime = 0

ArtistsInOrder(table) ==
    \A i \in DOMAIN table :
        \A a \in 1..(ArtistNo(table[i].artistName) - 1) :
            \E j \in 1..(i - 1) : ArtistNo(table[j].artistName) = a

HasTies(table) ==
    \E i, j \in DOMAIN table : i # j /\ table[i].endTime = table[j].endTime

\* The tie order shows only in a table that has equal end timestamps.
TieOrdersOf(table) == IF HasTies(table) THEN TieOrders ELSE {"stable"}

ContentRows == {Row(0, t, 45, a, NaN, NaN) : t \in {0, 120}, a \in ArtistNames}

\* setUp of TestListeningSessionAnalysis
TestSessionsDf ==
    << Row(0,  36000, 240, "Artist A", NaN, NaN),
       Row(1,  36240, 180, "Artist A", NaN, NaN),
       Row(2,  36480, 210, "Artist B", NaN, NaN),
       Row(3,  50400, 195, "Artist C", NaN, NaN),
       Row(4,  50700, 225, "Artist C", NaN, NaN),
       Row(5, 118800, 230, "Artist D", NaN, NaN),
       Row(6, 119100, 210, "Artist E", NaN, NaN),
       Row(7, 119400, 180, "Artist D", NaN, NaN) >>

\* setUp of TestListeningContextPrediction
TestContextDf ==
    << Row(0, 2 * SecondsPerDay +  7 * SecondsPerHour, 240, "Artist A", 90, 160),
       Row(1, 2 * SecondsPerDay + 12 * SecondsPerHour, 180, "Artist B", 40, 100),
       Row(2, 2 * SecondsPerDay + 18 * SecondsPerHour, 210, "Artist C", 60, 120),
       Row(3, 2 * SecondsPerDay + 22 * SecondsPerHour, 195, "Artist D", 30,  80),
       Row(4, 7 * SecondsPerDay + 21 * SecondsPerHour, 225, "Artist E", 80, 140) >>

EnergyValues == {30, 50, 60, 70, 85, NaN}
TempoValues == {120, 150, NaN}

\* One-row tables over every weekday and hour; a column that is missing
\* has no cells.
ContextTables(cols) ==
    {<<Row(0, d * SecondsPerDay + h * SecondsPerHour, 45, "Artist A", e, tp)>> :
        d \in 0..6, h \in 0..23,
        e \in IF "energy" \in cols THEN EnergyValues ELSE {NaN},
        tp \in IF "tempo" \in cols THEN TempoValues ELSE {NaN}}

\* Plays that end zero, one or two minutes after the first, short or long.
ReportRows ==
    {Row(0, SecondsPerMinute * k, d, "Artist A", NaN, NaN) :
        k \in {0, 1, 2}, d \in Durations}

\* Plays as long as the edges of the session-length histogram (seconds).
LengthDurations ==
    {45} \cup {hist_edges[b] * SecondsPerMinute : b \in 2..Len(hist_edges)}

LengthRows ==
    {Row(0, t, d, "Artist A", NaN, NaN) :
        t \in {0, SecondsPerMinute}, d \in LengthDurations}

\* Records of the streaming-history files: plays at two instants, skipped
\* (20 s) or played (45 s).
RawRows ==
    {Row(0, t, d, "Artist A", NaN, NaN) : t \in {0, 120}, d \in {20, 45}}

RawRecords == UNION {[1..n -> RawRows] : n \in 0..MaxRecords}

\* The columns load_data derives from endTime.
LoadedColumns == {"hour", "weekday", "weekday_name"}

\* self.df[self.df['msPlayed'] > 30000]: the rows kept carry the index
\* labels of their records.
loaded(records) ==
    SelectSeq(reindex(records), LAMBDA r : r.minutes_played > SkipThreshold)

\* A row of a table that carries track names and all four audio features.
FeatureRow(i, t, played, artist, track, e, tp, d, v, c) ==
    [idx |-> i, endTime |-> t, minutes_played |-> played, artistName |-> artist,
     energy |-> e, tempo |-> tp, context |-> c,
     trackName |-> track, danceability |-> d, valence |-> v]

\* Column sets of the tables handed to the predictor: with or without the
\* calendar columns, with none, some or all of the audio features (all of
\* them after enrich_with_audio_features), unlabelled or already labelled.
CalendarColumns == {{"hour", "weekday"}, {}}

AudioColumns ==
    {{}, {"energy"}, {"energy", "tempo"},
     {"energy", "tempo", "danceability", "valence"}}

PredictColumns ==
    {c \cup a \cup l : c \in CalendarColumns, a \in AudioColumns,
                       l \in {{}, {"context"}}}

\* Monday 07:00 and Saturday 21:00 plays; a track has all of its audio
\* features or none (None cells); in a labelled table the morning plays
\* are workout or unlabelled (null) and the evening plays are party.
PredictRows(cols) ==
    {FeatureRow(0, p.d * SecondsPerDay + p.h * SecondsPerHour, 45,
                "Artist A", "Track 1",
                IF known /\ "energy" \in cols THEN 90 ELSE NaN,
                IF known /\ "tempo" \in cols THEN 160 ELSE NaN,
                IF known /\ "danceability" \in cols THEN 70 ELSE NaN,
                IF known /\ "valence" \in cols THEN 60 ELSE NaN,
                IF "context" \in cols THEN p.c ELSE NoContext) :
        p \in {[d |-> 2, h |-> 7, c |-> "workout"],
               [d |-> 2, h |-> 7, c |-> NoContext],
               [d |-> 7, h |-> 21, c |-> "party"]},
        known \in BOOLEAN}

\* What the caller of predict_context passes: all of the values of an
\* input, or all but the first, a middle or the last of them.
PredictInput == [hour |-> 7, weekday |-> 0, energy |-> 85, tempo |-> 150,
                 danceability |-> 50, valence |-> 50]

KwargsOf(input) ==
    {[f \in names |-> input[f]] :
        names \in {DOMAIN input}
                    \cup {DOMAIN input \ {f} : f \in {"hour", "tempo", "valence"}}}

InitCommon ==
    /\ hasSessions = FALSE
    /\ sessions = <<>>
    /\ ret = [op |-> "init"]
    /\ context_model = NoModel
    /\ context_features = NoFeatures

\* Tables of one artist with arbitrary order, ties and long plays.
InitSessions ==
    /\ df \in {t \in TablesOf(SessionRows, MaxEvents) : StartsAtZero(t)}
              \cup {TestSessionsDf}
    /\ columns = {}
    /\ tieOrder \in TieOrdersOf(df)
    /\ InitCommon

\* Tables of several artists.
InitContent ==
    /\ df \in {t \in TablesOf(ContentRows, MaxContentEvents) : ArtistsInOrder(t)}
              \cup {TestSessionsDf}
    /\ columns = {}
    /\ tieOrder \in TieOrdersOf(df)
    /\ InitCommon

\* Tables with the calendar columns and any subset of energy / tempo; the
\* day-name column is there when load_data built the table, and the test
\* table has none.
InitContext ==
    /\ columns \in {{"hour", "weekday"} \cup a \cup n :
                       a \in SUBSET {"energy", "tempo"}, n \in SUBSET {"weekday_name"}}
    /\ df \in ContextTables(columns)
              \cup (IF has_audio_features(columns) /\ "weekday_name" \notin columns
                    THEN {TestContextDf} ELSE {})
    /\ tieOrder = "stable"
    /\ InitCommon

\* Tables for the session reports, the empty table among them.
InitReports ==
    /\ df \in {t \in TablesOf(ReportRows, MaxReportEvents) : StartsAtZero(t)}
              \cup {TestSessionsDf}
    /\ columns = {}
    /\ tieOrder \in TieOrdersOf(df)
    /\ InitCommon

\* Tables of long plays, whose sessions last as long as the histogram edges.
InitLengths ==
    /\ df \in {t \in TablesOf(LengthRows, MaxLengthEvents) : StartsAtZero(t)}
    /\ columns = {}
    /\ tieOrder \in TieOrdersOf(df)
    /\ InitCommon

\* Tables as load_data builds them from the records of the files.
InitLoaded ==
    /\ \E records \in RawRecords \ {<<>>} : df = loaded(records)
    /\ columns = LoadedColumns
    /\ tieOrder \in TieOrdersOf(df)
    /\ InitCommon

\* Tables for training and prediction.
InitPredict ==
    /\ columns \in PredictColumns
    /\ df \in TablesOf(PredictRows(columns), MaxPredictEvents)
    /\ tieOrder = "stable"
    /\ InitCommon

\* ----------------------------------------------------------------- actions
\* What detect_sessions(gap_threshold) leaves in self.sessions and returns.
detect_effect(gap_threshold) ==
    IF Len(df) = 0
    THEN [has |-> hasSessions, stored |-> sessions, value |-> <<>>]
    ELSE LET found == DetectedSessions(df, gap_threshold, tieOrder)
         IN  [has |-> TRUE, stored |-> store_sessions(sessions, found),
              value |-> found]

detect_sessions(gap_threshold) ==
    LET eff == detect_effect(gap_threshold)
    IN  /\ hasSessions' = eff.has
        /\ sessions' = eff.stored
        /\ ret' = [op |-> "detect_sessions", gap |-> gap_threshold,
                   value |-> eff.value,
                   again |-> (ret.op = "detect_sessions" /\ ret.gap = gap_threshold)]
        /\ UNCHANGED <<df, columns, tieOrder, context_model, context_features>>

\* if not hasattr(self, 'sessions') or not self.sessions: self.detect_sessions()
ensure_sessions ==
    IF ~hasSessions \/ sessions = <<>>
    THEN detect_effect(DefaultGapThreshold)
    ELSE [has |-> hasSessions, stored |-> sessions, value |-> <<>>]

session_content_analysis ==
    LET eff == ensure_sessions
    IN  /\ hasSessions' = eff.has
        /\ sessions' = eff.stored
        /\ ret' = IF ~eff.has
                  THEN [op |-> "session_content_analysis",
                        raised |-> "AttributeError"]
                  ELSE IF eff.stored = <<>>
                  THEN [op |-> "session_content_analysis", raised |-> "none",
                        avg_artist_continuity |-> [num |-> 0, den |-> 1],
                        avg_unique_artists_ratio |-> [num |-> 0, den |-> 1],
                        session_types |-> <<>>]
                  ELSE [op |-> "session_content_analysis", raised |-> "none",
                        avg_artist_continuity |->
                            mean_or_zero(artist_continuity(eff.stored)),
                        avg_unique_artists_ratio |->
                            mean_or_zero(unique_artists_ratio(eff.stored)),
                        session_types |-> Counter(session_types(eff.stored))]
        /\ UNCHANGED <<df, columns, tieOrder, context_model, context_features>>

\* fresh: the call comes right after a detect_sessions call.
session_statistics ==
    LET eff == ensure_sessions
    IN  /\ hasSessions' = eff.has
        /\ sessions' = eff.stored
        /\ ret' = IF ~eff.has
                  THEN [op |-> "session_statistics", raised |-> "AttributeError",
                        fresh |-> (ret.op = "detect_sessions")]
                  ELSE [op |-> "session_statistics", raised |-> "none",
                        fresh |-> (ret.op = "detect_sessions"),
                        value |-> IF eff.stored = <<>> THEN empty_statistics
                                  ELSE statistics(eff.stored)]
        /\ UNCHANGED <<df, columns, tieOrder, context_model, context_features>>

session_patterns ==
    LET eff == ensure_sessions
    IN  /\ hasSessions' = eff.has
        /\ sessions' = eff.stored
        /\ ret' = IF ~eff.has
                  THEN [op |-> "session_patterns", raised |-> "AttributeError"]
                  ELSE [op |-> "session_patterns", raised |-> "none",
                        value |-> IF eff.stored = <<>> THEN empty_patterns
                                  ELSE patterns(eff.stored)]
        /\ UNCHANGED <<df, columns, tieOrder, context_model, context_features>>

\* Reads the files again: replaces self.df, leaves self.sessions alone.
load_data ==
    \E records \in RawRecords :
        /\ IF records = <<>>
           THEN /\ UNCHANGED <<df, columns, tieOrder>>
                /\ ret' = [op |-> "load_data", raised |-> "ValueError"]
           ELSE /\ df' = loaded(records)
                /\ columns' = LoadedColumns
                /\ tieOrder' \in TieOrdersOf(df')
                /\ ret' = [op |-> "load_data", raised |-> "none"]
        /\ UNCHANGED <<hasSessions, sessions, context_model, context_features>>

\* What categorize_listening_contexts leaves in self.df. On an empty table
\* DataFrame.apply returns a frame, and assigning it to one column raises
\* or not depending on the pandas release.
categorize_effect(raises) ==
    IF raises
    THEN [columns |-> columns \cup {"hour", "weekday"}, df |-> df,
          raised |-> "ValueError"]
    ELSE [columns |-> columns \cup {"hour", "weekday", "context"},
          df |-> [i \in DOMAIN df |->
                    [df[i] EXCEPT !.context =
                       determine_context(df[i], has_audio_features(columns))]],
          raised |-> "none"]

categorize_listening_contexts ==
    /\ \E raises \in IF Len(df) = 0 THEN BOOLEAN ELSE {FALSE} :
         LET eff == categorize_effect(raises)
         IN  /\ columns' = eff.columns
             /\ df' = eff.df
             /\ ret' = [op |-> "categorize_listening_contexts",
                        raised |-> eff.raised]
    /\ UNCHANGED <<tieOrder, hasSessions, sessions, context_model, context_features>>

\* The rows of the table with the given label.
labelled(table, c) == {i \in DOMAIN table : table[i].context = c}

\* The four entries context_statistics returns; unstack(fill_value=0) has a
\* row for every hour (day name) and a column for every label that occurs.
context_stats(table) ==
    LET labels == {table[i].context : i \in DOMAIN table}
    IN  [distribution |->
            [c \in labels |->
                [num |-> Cardinality(labelled(table, c)), den |-> Len(table)]],
         by_time |->
            [c \in labels |->
                Sum([i \in DOMAIN table |->
                       IF table[i].context = c THEN table[i].minutes_played ELSE 0])],
         by_hour |->
            [h \in {hour(table[i].endTime) : i \in DOMAIN table} |->
                [c \in labels |->
                    Cardinality({i \in labelled(table, c) :
                                    hour(table[i].endTime) = h})]],
         by_weekday |->
            [w \in {weekday_name(table[i].endTime) : i \in DOMAIN table} |->
                [c \in labels |->
                    Cardinality({i \in labelled(table, c) :
                                    weekday_name(table[i].endTime) = w})]]]

\* Labels the table first when it has no context column; groups by the
\* columns hour and weekday_name, and only load_data creates the latter.
context_statistics ==
    /\ \E raises \in IF "context" \notin columns /\ Len(df) = 0
                     THEN BOOLEAN ELSE {FALSE} :
         LET eff == IF "context" \notin columns THEN categorize_effect(raises)
                    ELSE [columns |-> columns, df |-> df, raised |-> "none"]
         IN  /\ columns' = eff.columns
             /\ df' = eff.df
             /\ ret' = IF eff.raised # "none"
                       THEN [op |-> "context_statistics", raised |-> eff.raised]
                       ELSE IF "weekday_name" \notin eff.columns
                       THEN [op |-> "context_statistics", raised |-> "KeyError"]
                       ELSE [op |-> "context_statistics", raised |-> "none",
                             value |-> context_stats(eff.df)]
    /\ UNCHANGED <<tieOrder, hasSessions, sessions, context_model, context_features>>

StoreFeaturesReversed(feats) == [k \in DOMAIN feats |-> feats[Len(feats) + 1 - k]]

\* self.context_features = available_features
store_features(feats) == feats

\* X and y of the test table once categorize_listening_contexts has
\* labelled it, and the trees a fit on them can return.
TestSamples ==
    samples_of([i \in DOMAIN TestContextDf |->
                   [TestContextDf[i] EXCEPT !.context =
                       determine_context(TestContextDf[i], TRUE)]],
               <<"hour", "weekday", "energy", "tempo">>)

TestTrees == fit(TestSamples, 4)

\* self.context_model.fit(X, y); the trees of the test table are computed
\* once.
context_model_fit(data, nfeat) ==
    IF data = TestSamples /\ nfeat = 4 THEN TestTrees ELSE fit(data, nfeat)

TrainAfterForgetsOnFailure(cat) ==
    LET feats == available_features(cat.columns)
        train_data == dropna(cat.df, feats)
    IN  IF cat.raised # "none" \/ Len(feats) < 2 \/ Len(train_data) = 0
        THEN {[columns |-> cat.columns, df |-> cat.df, model |-> NoModel,
               features |-> NoFeatures, rows |-> <<>>, raised |-> "ValueError"]}
        ELSE {[columns |-> cat.columns, df |-> cat.df,
               model |-> [stored |-> TRUE, fitted_on |-> feats, tree |-> t],
               features |-> feats, rows |-> train_data, raised |-> "none"] :
                 t \in context_model_fit(samples_of(train_data, feats), Len(feats))}

\* What train_context_predictor can leave behind, after categorization went
\* as in cat: the import of scikit-learn fails or succeeds, then the checks
\* of the features and of the rows, then the fit.
train_after(cat) ==
    LET unchanged == [columns |-> cat.columns, df |-> cat.df,
                      model |-> context_model, features |-> context_features,
                      rows |-> <<>>]
        feats == available_features(cat.columns)
        train_data == dropna(cat.df, feats)
    IN  IF cat.raised # "none"
        THEN {unchanged @@ [raised |-> cat.raised]}
        ELSE {unchanged @@ [raised |-> "ImportError"]}
             \cup (IF Len(feats) < 2 \/ Len(train_data) = 0
                   THEN {unchanged @@ [raised |-> "ValueError"]}
                   ELSE {[columns |-> cat.columns, df |-> cat.df,
                          model |-> [stored |-> TRUE, fitted_on |-> feats, tree |-> t],
                          features |-> store_features(feats),
                          rows |-> train_data, raised |-> "none"] :
                            t \in context_model_fit(samples_of(train_data, feats), Len(feats))})

\* if 'context' not in self.df.columns: self.categorize_listening_contexts()
train_outcomes ==
    IF "context" \in columns
    THEN train_after([columns |-> columns, df |-> df, raised |-> "none"])
    ELSE UNION {train_after(categorize_effect(raises)) :
                   raises \in IF Len(df) = 0 THEN BOOLEAN ELSE {FALSE}}

\* had: whether a model was stored before the call.
train_context_predictor ==
    /\ \E out \in train_outcomes :
         /\ columns' = out.columns
         /\ df' = out.df
         /\ context_model' = out.model
         /\ context_features' = out.features
         /\ ret' = [op |-> "train_context_predictor", raised |-> out.raised,
                    rows |-> out.rows, had |-> (context_model.stored)]
    /\ UNCHANGED <<tieOrder, hasSessions, sessions>>

FirstMissingIsFirstFeature(feats, kwargs) == feats[1]

\* The first feature of the stored list that the caller did not pass.
first_missing(feats, kwargs) ==
    LET k == Min({i \in DOMAIN feats : feats[i] \notin DOMAIN kwargs})
    IN  feats[k]

\* What predict_context answers once a model is stored: the error naming
\* the first missing feature, or the label the model gives to the caller's
\* values collected in the order of self.context_features.
predict_with(model, feats, kwargs) ==
    IF \E i \in DOMAIN feats : feats[i] \notin DOMAIN kwargs
    THEN {[raised |-> "ValueError", why |-> "missing feature",
           missing |-> first_missing(feats, kwargs)]}
    ELSE LET passed == [i \in DOMAIN feats |-> kwargs[feats[i]]]
         IN  {[raised |-> "none", passed |-> passed, value |-> label] :
                 label \in predict(model.tree, model.fitted_on, passed)}

\* Trains first when no model is stored; then answers with the stored model.
predict_context(kwargs) ==
    /\ \E out \in IF ~context_model.stored THEN train_outcomes
                  ELSE {[columns |-> columns, df |-> df, model |-> context_model,
                         features |-> context_features, raised |-> "none"]} :
         /\ columns' = out.columns
         /\ df' = out.df
         /\ context_model' = out.model
         /\ context_features' = out.features
         /\ \E res \in IF out.raised # "none"
                       THEN {[raised |-> out.raised, why |-> "training failed"]}
                       ELSE predict_with(out.model, out.features, kwargs) :
               ret' = res @@ [op |-> "predict_context", kwargs |-> kwargs,
                              had |-> (context_model.stored)]
    /\ UNCHANGED <<tieOrder, hasSessions, sessions>>

\* The audio features Spotify knows of the track of the tables.
TrackFeatures == [energy |-> 90, tempo |-> 160, danceability |-> 70, valence |-> 60]

\* For an analyzer that is connected and whose table has track ids: every
\* audio-feature column is (re)written, with the track's features where the
\* service returned them and None where it returned nothing (found).
enrich_with_audio_features ==
    /\ \E found \in BOOLEAN :
         df' = [i \in DOMAIN df |->
                  [f \in DOMAIN df[i] |->
                     IF f \in DOMAIN TrackFeatures
                     THEN (IF found THEN TrackFeatures[f] ELSE NaN)
                     ELSE df[i][f]]]
    /\ columns' = columns \cup DOMAIN TrackFeatures
    /\ ret' = [op |-> "enrich_with_audio_features"]
    /\ UNCHANGED <<tieOrder, hasSessions, sessions, context_model, context_features>>

\* The values the form of the prediction demo starts with.
DemoInput == [hour |-> 12, weekday |-> 0, energy |-> 50, tempo |-> 120]

\* predict_kwargs = {'hour': hour, 'weekday': weekday}, plus energy and
\* tempo when the table has those columns.
predict_kwargs(cols) ==
    [f \in {"hour", "weekday"} \cup ({"energy", "tempo"} \cap cols) |-> DemoInput[f]]

\* The dashboard's context prediction demo: trains the predictor, and on
\* submit predicts from the form's values; any exception is caught and
\* shown as a warning or an error.
context_prediction_demo(submit) ==
    /\ \E out \in train_outcomes :
         /\ columns' = out.columns
         /\ df' = out.df
         /\ context_model' = out.model
         /\ context_features' = out.features
         /\ \E res \in IF out.raised # "none"
                       THEN {[raised |-> out.raised, why |-> "training failed"]}
                       ELSE IF ~submit
                       THEN {[raised |-> "none", why |-> "not submitted"]}
                       ELSE predict_with(out.model, out.features,
                                         predict_kwargs(out.columns)) :
               ret' = res @@ [op |-> "context_prediction_demo",
                              kwargs |-> predict_kwargs(out.columns),
                              shown |-> IF res.raised = "none" THEN "result"
                                        ELSE IF res.raised = "ImportError"
                                        THEN "warning" ELSE "error"]
    /\ UNCHANGED <<tieOrder, hasSessions, sessions>>

\* ---------------------------------------------------- suggest_for_context
\* The (trackName, artistName) keys of the generated tables, in the sorted
\* order in which groupby lists its groups.
GroupKeys ==
    <<[track |-> "Track 1", artist |-> "Artist A"],
      [track |-> "Track 1", artist |-> "Artist B"],
      [track |-> "Track 2", artist |-> "Artist A"],
      [track |-> "Track 2", artist |-> "Artist B"]>>

\* self.df[self.df['context'] == context]
context_rows(table, context) == SelectSeq(table, LAMBDA row : row.context = context)

\* groupby(['trackName', 'artistName']).size(): one entry per key that
\* occurs, in key order, with the number of its rows.
group_sizes(context_df) ==
    LET rows_of(key) == {i \in DOMAIN context_df :
                            /\ context_df[i].trackName = key.track
                            /\ context_df[i].artistName = key.artist}
        present == SelectSeq(GroupKeys, LAMBDA key : rows_of(key) # {})
    IN  [k \in DOMAIN present |->
            [track |-> present[k].track, artist |-> present[k].artist,
             count |-> Cardinality(rows_of(present[k]))]]

\* The entries by descending count; equal counts stay in their order under
\* a stable sort and come out in the build's order otherwise.
sort_descending(sizes, tie) ==
    LET before(j, i) == \/ sizes[j].count > sizes[i].count
                        \/ /\ sizes[j].count = sizes[i].count
                           /\ IF tie = "stable" THEN j < i ELSE j > i
        position(i) == 1 + Cardinality({j \in DOMAIN sizes : before(j, i)})
    IN  [k \in DOMAIN sizes |-> sizes[CHOOSE i \in DOMAIN sizes : position(i) = k]]

\* Series.nlargest(n), keep='first': nothing for n <= 0; the whole series
\* through sort_values(ascending=False), whose default sort is not stable,
\* when n reaches its length; otherwise the first n of a stable selection.
nlargest(sizes, n, tie) ==
    IF n <= 0 THEN <<>>
    ELSE IF n >= Len(sizes) THEN sort_descending(sizes, tie)
    ELSE SubSeq(sort_descending(sizes, "stable"), 1, n)

suggest_for_context(context, limit) ==
    /\ \E raises \in IF Len(df) = 0 THEN BOOLEAN ELSE {FALSE} :
         LET eff == IF "context" \notin columns THEN categorize_effect(raises)
                    ELSE [columns |-> columns, df |-> df, raised |-> "none"]
             context_df == context_rows(eff.df, context)
         IN  /\ columns' = eff.columns
             /\ df' = eff.df
             /\ ret' = IF eff.raised # "none"
                       THEN [op |-> "suggest_for_context", raised |-> eff.raised,
                             context |-> context, limit |-> limit]
                       ELSE [op |-> "suggest_for_context", raised |-> "none",
                             context |-> context, limit |-> limit,
                             value |-> IF Len(context_df) = 0 THEN <<>>
                                       ELSE nlargest(group_sizes(context_df),
                                                     limit, tieOrder)]
    /\ UNCHANGED <<tieOrder, hasSessions, sessions, context_model, context_features>>

\* Two tracks of two artists; the tables are labelled already, or carry
\* the calendar columns only with plays on Monday 07:00 or Saturday 21:00.
SuggestRows(cols) ==
    {FeatureRow(0, d * SecondsPerDay + h * SecondsPerHour, 45,
                key.artist, key.track, NaN, NaN, NaN, NaN, c) :
        <<d, h>> \in IF "context" \in cols THEN {<<2, 7>>}
                                        ELSE {<<2, 7>>, <<7, 21>>},
        key \in {GroupKeys[k] : k \in DOMAIN GroupKeys},
        c \in IF "context" \in cols THEN {"commute", "party"} ELSE {NoContext}}

DefaultLimit == 5
Limits == (0..MaxLimit) \cup {DefaultLimit}

InitSuggest ==
    /\ columns \in {{"hour", "weekday"}, {"hour", "weekday", "context"}}
    /\ df \in TablesOf(SuggestRows(columns), MaxSuggestEvents)
    /\ tieOrder \in TieOrders
    /\ InitCommon

NextSuggest ==
    \E context \in {"commute", "party", "work"}, limit \in Limits :
        suggest_for_context(context, limit)

\* ----------------------------------------------------- test_predict_context
\* The two calls of test_predict_context.
TestPredictions ==
    {[energy |-> 85, tempo |-> 150, hour |-> 7, weekday |-> 0],
     [energy |-> 20, tempo |-> 85, hour |-> 22, weekday |-> 3]}

\* The analyzer of TestListeningContextPrediction.setUp.
InitTest ==
    /\ columns = {"hour", "weekday", "energy", "tempo"}
    /\ df = TestContextDf
    /\ tieOrder = "stable"
    /\ InitCommon

NextTest ==
    \/ categorize_listening_contexts
    \/ train_context_predictor
    \/ \E kwargs \in TestPredictions : predict_context(kwargs)

\* The session operations and the context operations work on disjoint parts
\* of the state: the former read end timestamps, durations and artists, the
\* latter the calendar and audio-feature columns.
NextSessions ==
    \/ \E g \in Thresholds : detect_sessions(g)
    \/ session_content_analysis

NextReports ==
    \/ NextSessions
    \/ session_statistics
    \/ session_patterns

NextContext ==
    \/ categorize_listening_contexts
    \/ context_statistics

NextReload ==
    \/ NextReports
    \/ load_data

NextPredict ==
    \/ train_context_predictor
    \/ \E kwargs \in KwargsOf(PredictInput) : predict_context(kwargs)
    \/ enrich_with_audio_features
    \/ \E submit \in BOOLEAN : context_prediction_demo(submit)

Next ==
    \/ NextReports
    \/ NextContext
    \/ load_data
    \/ NextPredict
    \/ NextSuggest
    \/ NextTest

Spec == InitSessions /\ [][NextSessions]_vars
SpecContent == InitContent /\ [][NextSessions]_vars
SpecContext == InitContext /\ [][NextContext]_vars
SpecReload == InitLoaded /\ [][NextReload]_vars
SpecLengths == InitLengths /\ [][NextReports]_vars
SpecReports == InitReports /\ [][NextReports]_vars
SpecPredict == InitPredict /\ [][NextPredict]_vars
SpecSuggest == InitSuggest /\ [][NextSuggest]_vars
SpecTest == InitTest /\ [][NextTest]_vars

\* ------------------------------------------------------------- properties
Detected == ret.op = "detect_sessions"

\* All rows of the returned sessions, session after session.
RECURSIVE Flatten(_)
Flatten(ss) == IF ss = <<>> THEN <<>> ELSE ss[1] \o Flatten(Tail(ss))

\* The session (by position) that holds the m-th row of Flatten(ss).
SessionOf(ss, m) ==
    CHOOSE k \in DOMAIN ss :
        LET before == Len(Flatten(SubSeq(ss, 1, k - 1)))
        IN  before < m /\ m <= before + Len(ss[k])

\* C1: the sessions detect_sessions returns for a non-empty table partition
\* its events: every event is in exactly one session, no session is empty,
\* and each session is in non-decreasing end-timestamp order.
C1_Partition ==
    (Detected /\ Len(df) > 0) =>
        LET all == Flatten(ret.value)
        IN  /\ Len(all) = Len(df)
            /\ \A i \in DOMAIN df :
                 Cardinality({m \in DOMAIN all : all[m] = df[i]}) = 1
            /\ \A k \in DOMAIN ret.value : Len(ret.value[k]) > 0
            /\ \A k \in DOMAIN ret.value :
                 \A m \in 1..(Len(ret.value[k]) - 1) :
                    ret.value[k][m].endTime <= ret.value[k][m + 1].endTime

C1_Witness ==
    /\ Detected
    /\ Len(ret.value) >= 2
    /\ \E k \in DOMAIN ret.value : Len(ret.value[k]) >= 2
    /\ \E i \in 1..(Len(df) - 1) : df[i].endTime > df[i + 1].endTime

TestSessionSizes == <<3, 2, 3>>

\* C2: the returned rows are in ascending end-timestamp order and a session
\* starts at the first row and at exactly the rows whose end timestamp is
\* more than gap_threshold minutes after the previous row's (a gap equal to
\* the threshold does not split); the test table with threshold 30 gives
\* three sessions of sizes 3, 2, 3.
C2_SplitIffGapExceeds ==
    Detected =>
        LET all == Flatten(ret.value)
        IN  /\ \A m \in 2..Len(all) :
                 /\ all[m - 1].endTime <= all[m].endTime
                 /\ (SessionOf(ret.value, m) # SessionOf(ret.value, m - 1))
                      <=> (all[m].endTime - all[m - 1].endTime
                             > ret.gap * SecondsPerMinute)
            /\ (Len(df) > 0) => SessionOf(ret.value, 1) = 1
            /\ (df = TestSessionsDf /\ ret.gap = DefaultGapThreshold) =>
                 [k \in DOMAIN ret.value |-> Len(ret.value[k])] = TestSessionSizes

C2_Witness ==
    /\ Detected
    /\ ret.gap > 0
    /\ \E k \in DOMAIN ret.value : \E m \in 1..(Len(ret.value[k]) - 1) :
         ret.value[k][m + 1].endTime - ret.value[k][m].endTime
            = ret.gap * SecondsPerMinute
    /\ Len(ret.value) >= 2

\* C3: on the same table, a detect_sessions call with a threshold at least
\* as large as the previous call's returns no more sessions than it did.
C3_Monotone ==
    [][(Detected /\ ret'.op = "detect_sessions" /\ ret.gap <= ret'.gap)
          => Len(ret'.value) <= Len(ret.value)]_vars

C3_Witness ==
    /\ Detected
    /\ ret.gap > 0
    /\ Len(ret.value) < Len(DetectedSessions(df, 0, tieOrder))
    /\ Len(ret.value) > Len(DetectedSessions(df, DefaultGapThreshold, tieOrder))

\* C4: a detect_sessions call that repeats the previous call (same table,
\* same threshold) returns the same grouping and leaves the stored session
\* list as the first call stored it.
C4_Idempotent ==
    [][(Detected /\ ret'.op = "detect_sessions" /\ ret'.gap = ret.gap)
          => (ret'.value = ret.value /\ sessions' = sessions)]_vars

C4_Witness ==
    /\ Detected
    /\ ret.again
    /\ Len(ret.value) >= 2
    /\ sessions = ret.value
    /\ \E i, j \in DOMAIN df : i # j /\ df[i].endTime = df[j].endTime

\* Start time of a session: endTime.min() minus the play duration of its
\* first row.
StartTime(session) ==
    LET first == CHOOSE t \in {session[m].endTime : m \in DOMAIN session} :
                    \A m \in DOMAIN session : t <= session[m].endTime
    IN  first - session[1].minutes_played

\* C5 as stated: consecutive returned sessions are in start-time order.
C5_OrderedByStartTime ==
    Detected =>
        \A k \in 1..(Len(ret.value) - 1) :
            StartTime(ret.value[k]) <= StartTime(ret.value[k + 1])

\* C5 as amended: consecutive returned sessions are in the order of their
\* first events' end timestamps, and in start-time order whenever the later
\* session's first play is no longer than the gap since the last event of
\* the session before it.
C5_OrderedByFirstEndTime ==
    Detected =>
        \A k \in 1..(Len(ret.value) - 1) :
            LET s == ret.value[k]
                t == ret.value[k + 1]
            IN  /\ s[1].endTime <= t[1].endTime
                /\ (t[1].minutes_played <= t[1].endTime - s[Len(s)].endTime)
                      => StartTime(s) <= StartTime(t)

C5_Witness ==
    /\ Detected
    /\ Len(ret.value) >= 3
    /\ StartTime(ret.value[1]) <= StartTime(ret.value[2])
    /\ ret.value[2][1].minutes_played
          <= ret.value[2][1].endTime - ret.value[1][Len(ret.value[1])].endTime
    /\ StartTime(ret.value[2]) > StartTime(ret.value[3])

Categorized == ret.op = "categorize_listening_contexts" /\ ret.raised = "none"

InHours(h, lo, hi) == lo <= h /\ h <= hi

\* The rule table as the specification words it, for known feature values.
RuleLabel(h, wd, energy, tempo, audio) ==
    IF audio /\ energy > 70 /\ tempo > 120 /\ (InHours(h, 5, 9) \/ InHours(h, 17, 20))
    THEN "workout"
    ELSE IF wd < 5 /\ (InHours(h, 7, 9) \/ InHours(h, 16, 19)) THEN "commute"
    ELSE IF wd < 5 /\ InHours(h, 9, 17) /\ (~audio \/ energy < 70) THEN "work"
    ELSE IF wd >= 5 /\ h >= 20 /\ (~audio \/ energy > 70) THEN "party"
    ELSE IF h >= 20 /\ (~audio \/ energy < 50) THEN "relaxation"
    ELSE "other"

TestContextLabels == <<"workout", "work", "commute", "relaxation", "party">>

\* C6: categorize_listening_contexts labels every event whose energy and
\* tempo are known (when both columns exist) with the first matching rule
\* of workout, commute, work, party, relaxation, other; the five test
\* events get workout, work, commute, relaxation, party.
C6_FirstMatchingRule ==
    Categorized =>
        /\ \A i \in DOMAIN df :
             (has_audio_features(columns) =>
                 (df[i].energy # NaN /\ df[i].tempo # NaN))
             => df[i].context =
                   RuleLabel(hour(df[i].endTime), weekday(df[i].endTime),
                             df[i].energy, df[i].tempo,
                             has_audio_features(columns))
        /\ (Len(df) = Len(TestContextDf)
            /\ \A i \in DOMAIN df : [df[i] EXCEPT !.context = NoContext] = TestContextDf[i])
             => [i \in DOMAIN df |-> df[i].context] = TestContextLabels

C6_Witness ==
    /\ Categorized
    /\ has_audio_features(columns)
    /\ [i \in DOMAIN df |-> df[i].context] = TestContextLabels

\* Monday 08:00, energy 0.85, tempo 150.
IsPriorityScenario(row) ==
    /\ weekday(row.endTime) = 0
    /\ hour(row.endTime) = 8
    /\ row.energy = 85
    /\ row.tempo = 150

\* C7: once the context column exists every event carries one label of the
\* six contexts, and the Monday 08:00 event with energy 0.85 and tempo 150
\* of a table with audio features is labelled workout, not commute.
C7_OneLabelOfSix ==
    ("context" \in columns) =>
        \A i \in DOMAIN df :
            /\ df[i].context \in Contexts
            /\ (has_audio_features(columns) /\ IsPriorityScenario(df[i]))
                 => df[i].context = "workout"

C7_Witness ==
    /\ Categorized
    /\ has_audio_features(columns)
    /\ \E i \in DOMAIN df : IsPriorityScenario(df[i]) /\ df[i].context = "workout"

\* The row with each null feature replaced by its default.
WithDefaults(row) ==
    [row EXCEPT !.energy = IF @ = NaN THEN DefaultEnergy ELSE @,
                !.tempo = IF @ = NaN THEN DefaultTempo ELSE @]

\* C8: in a table that has the energy and tempo columns, an event whose
\* energy or tempo is null is labelled as the same event with energy 0.5
\* and tempo 120 in place of the null values.
C8_NullFeatureUsesDefault ==
    (Categorized /\ has_audio_features(columns)) =>
        \A i \in DOMAIN df :
            df[i].context =
                RuleLabel(hour(df[i].endTime), weekday(df[i].endTime),
                          WithDefaults(df[i]).energy, WithDefaults(df[i]).tempo, TRUE)

\* The rule table with every energy condition satisfied and no workout rule.
NoAudioLabel(h, wd) ==
    IF wd < 5 /\ (InHours(h, 7, 9) \/ InHours(h, 16, 19)) THEN "commute"
    ELSE IF wd < 5 /\ InHours(h, 9, 17) THEN "work"
    ELSE IF wd >= 5 /\ h >= 20 THEN "party"
    ELSE IF h >= 20 THEN "relaxation"
    ELSE "other"

\* C9: when the energy or the tempo column is missing,
\* categorize_listening_contexts does not fail on a non-empty table and
\* every label is that of the hour and weekday alone: never workout, the
\* energy conditions of work, party and relaxation taken as satisfied.
C9_NoAudioBranch ==
    (ret.op = "categorize_listening_contexts" /\ Len(df) > 0
        /\ ~has_audio_features(columns)) =>
        /\ ret.raised = "none"
        /\ \A i \in DOMAIN df :
             /\ df[i].context = NoAudioLabel(hour(df[i].endTime), weekday(df[i].endTime))
             /\ df[i].context # "workout"

C9_Witness ==
    /\ Categorized
    /\ "energy" \in columns
    /\ "tempo" \notin columns
    /\ \E i \in DOMAIN df :
         /\ df[i].energy = 85
         /\ hour(df[i].endTime) = 12
         /\ df[i].context = "work"

ContentAnalysed ==
    ret.op = "session_content_analysis" /\ ret.raised = "none"

\* The type rules as the specification words them.
RuleType(events, artists) ==
    IF events > 1 /\ artists = 1 THEN "single_artist"
    ELSE IF events > 3 /\ artists <= 2 THEN "album_listening"
    ELSE IF events > 1 /\ 5 * artists > 4 * events THEN "variety"
    ELSE "mixed"

CountOf(counter, key) == IF key \in DOMAIN counter THEN counter[key] ELSE 0

\* C10: session_content_analysis counts every stored session under the one
\* type its first matching rule gives (single_artist, album_listening,
\* variety, else mixed); single-event sessions are mixed, and the counts
\* sum to the number of sessions.
C10_SessionTypes ==
    ContentAnalysed =>
        /\ DOMAIN ret.session_types \subseteq SessionTypes
        /\ \A t \in SessionTypes :
             CountOf(ret.session_types, t) =
                Cardinality({k \in DOMAIN sessions :
                    RuleType(Len(sessions[k]), nunique(sessions[k])) = t})
        /\ CountOf(ret.session_types, "mixed")
             >= Cardinality({k \in DOMAIN sessions : Len(sessions[k]) = 1})
        /\ CountOf(ret.session_types, "single_artist")
             + CountOf(ret.session_types, "album_listening")
             + CountOf(ret.session_types, "variety")
             + CountOf(ret.session_types, "mixed") = Len(sessions)

C10_Witness ==
    /\ ContentAnalysed
    /\ CountOf(ret.session_types, "album_listening") = 1
    /\ Len(sessions) = 1
    /\ nunique(sessions[1]) = 2

SessionReports == {"session_statistics", "session_patterns", "session_content_analysis"}

\* C11: on a table of zero events session_statistics, session_patterns and
\* session_content_analysis never raise and return a zero-valued or empty
\* result, called first or after detect_sessions.
C11_EmptyTableNeverRaises ==
    (Len(df) = 0 /\ ret.op \in SessionReports) =>
        /\ ret.raised = "none"
        /\ (ret.op = "session_statistics") => ret.value.total_sessions = 0
        /\ (ret.op = "session_patterns") => ret.value = empty_patterns
        /\ (ret.op = "session_content_analysis") => ret.session_types = <<>>

StatisticsFields ==
    {"total_sessions", "avg_session_length", "median_session_length",
     "avg_tracks_per_session", "avg_artists_per_session",
     "session_length_distribution", "longest_session_minutes",
     "shortest_session_minutes"}

\* C12: every call of session_statistics, the zero-session case included,
\* returns a result that contains all eight fields.
C12_AlwaysEightFields ==
    (ret.op = "session_statistics") =>
        /\ ret.raised = "none"
        /\ StatisticsFields \subseteq DOMAIN ret.value

\* C13: once sessions are stored, the stored list equals what the latest
\* detect_sessions call returned, also when that call ran on an emptied
\* table and returned the empty sequence.
C13_StoredIsLatestReturn ==
    (Detected /\ hasSessions) => sessions = ret.value

\* C14: session_statistics called right after detect_sessions on the same
\* non-empty table reports as total_sessions the number of sessions that
\* call returned and as avg_tracks_per_session the number of events of the
\* table divided by total_sessions; the eight events of the test table in
\* three sessions give 8/3.
C14_TotalsAfterDetect ==
    [][(Detected /\ Len(df) > 0 /\ ret'.op = "session_statistics") =>
          /\ ret'.raised = "none"
          /\ ret'.value.total_sessions = Len(ret.value)
          /\ ret'.value.avg_tracks_per_session.num * ret'.value.total_sessions
               = Len(df) * ret'.value.avg_tracks_per_session.den
          /\ (df = TestSessionsDf /\ ret.gap = DefaultGapThreshold) =>
                /\ ret'.value.total_sessions = 3
                /\ ret'.value.avg_tracks_per_session.num * 3
                     = 8 * ret'.value.avg_tracks_per_session.den]_vars

C14_Witness ==
    /\ ret.op = "session_statistics"
    /\ ret.fresh
    /\ df = TestSessionsDf
    /\ ret.raised = "none"
    /\ ret.value.total_sessions = 3
    /\ ret.value.avg_tracks_per_session = [num |-> 8, den |-> 3]

\* A result of session_statistics for one or more sessions.
StatisticsReported ==
    /\ ret.op = "session_statistics"
    /\ ret.raised = "none"
    /\ ret.value.total_sessions > 0

\* End of the last event minus start of the first event (its end minus its
\* play duration); the play duration of a lone event.
SpanOf(session) ==
    IF Len(session) > 1
    THEN session[Len(session)].endTime
           - (session[1].endTime - session[1].minutes_played)
    ELSE session[1].minutes_played

\* C15: the duration of a session of several events runs from the start of
\* its first event to the end of its last event, that of a single-event
\* session is the event's play duration; with plays longer than 30 seconds
\* every duration is strictly positive, and longest_session_minutes and
\* shortest_session_minutes are the largest and the smallest duration.
C15_SessionDurations ==
    StatisticsReported =>
        LET spans == {SpanOf(sessions[k]) : k \in DOMAIN sessions}
        IN  /\ \A k \in DOMAIN sessions :
                 \A m \in DOMAIN sessions[k] :
                     sessions[k][m].minutes_played > SkipThreshold
            /\ \A d \in spans : d > 0
            /\ ret.value.longest_session_minutes \in spans
            /\ \A d \in spans : d <= ret.value.longest_session_minutes
            /\ ret.value.shortest_session_minutes \in spans
            /\ \A d \in spans : d >= ret.value.shortest_session_minutes
            /\ ret.value.avg_session_length.num
                 = Sum([k \in DOMAIN sessions |-> SpanOf(sessions[k])])
            /\ ret.value.avg_session_length.den = Len(sessions)

C15_Witness ==
    /\ StatisticsReported
    /\ \E k \in DOMAIN sessions : Len(sessions[k]) > 1
    /\ \E k \in DOMAIN sessions : Len(sessions[k]) = 1
    /\ ret.value.longest_session_minutes > ret.value.shortest_session_minutes

\* A result of session_patterns for one or more sessions.
PatternsReported ==
    /\ ret.op = "session_patterns"
    /\ ret.raised = "none"
    /\ sessions # <<>>

\* End timestamp of the first event minus that event's play duration.
StartOfFirstEvent(session) == session[1].endTime - session[1].minutes_played

\* The sessions whose start time has the given hour, weekday index or month.
StartingInHour(h) ==
    {k \in DOMAIN sessions : hour(StartOfFirstEvent(sessions[k])) = h}

StartingOnWeekday(w) ==
    {k \in DOMAIN sessions : weekday(StartOfFirstEvent(sessions[k])) = w}

StartingInMonth(m) ==
    {k \in DOMAIN sessions : month_name(StartOfFirstEvent(sessions[k])) = m}

TestPatternsReported ==
    /\ PatternsReported
    /\ df = TestSessionsDf
    /\ Len(sessions) = 3

LengthBuckets ==
    << [label |-> "0-15min",    low |-> 0,   high |-> 15],
       [label |-> "15-30min",   low |-> 15,  high |-> 30],
       [label |-> "30-60min",   low |-> 30,  high |-> 60],
       [label |-> "60-120min",  low |-> 60,  high |-> 120],
       [label |-> "120-240min", low |-> 120, high |-> 240],
       [label |-> "240min+",    low |-> 240, high |-> 0] >>

\* low <= duration < high, the duration in seconds.
InBucket(span, bucket) ==
    /\ bucket.low * SecondsPerMinute <= span
    /\ (bucket.high = 0 \/ span < bucket.high * SecondsPerMinute)

\* C18: session_length_distribution has exactly the six buckets 0-15min,
\* 15-30min, 30-60min, 60-120min, 120-240min and 240min+; every session is
\* counted in exactly one of them, the one whose half-open range
\* [low, high) holds its duration (a duration equal to an edge goes to the
\* bucket that starts there), and the six counts sum to total_sessions.
C18_LengthDistribution ==
    StatisticsReported =>
        LET dist == ret.value.session_length_distribution
        IN  /\ DOMAIN dist = {LengthBuckets[b].label : b \in DOMAIN LengthBuckets}
            /\ Cardinality(DOMAIN dist) = 6
            /\ \A k \in DOMAIN sessions :
                 Cardinality({b \in DOMAIN LengthBuckets :
                                 InBucket(SpanOf(sessions[k]), LengthBuckets[b])}) = 1
            /\ \A b \in DOMAIN LengthBuckets :
                 dist[LengthBuckets[b].label]
                   = Cardinality({k \in DOMAIN sessions :
                                     InBucket(SpanOf(sessions[k]), LengthBuckets[b])})
            /\ Sum([b \in DOMAIN LengthBuckets |-> dist[LengthBuckets[b].label]])
                 = ret.value.total_sessions

\* One session of exactly 15 minutes and one of exactly 240 minutes.
C18_Witness ==
    /\ StatisticsReported
    /\ ret.value.total_sessions = 2
    /\ \E k \in DOMAIN sessions : SpanOf(sessions[k]) = 15 * SecondsPerMinute
    /\ \E k \in DOMAIN sessions : SpanOf(sessions[k]) = 240 * SecondsPerMinute
    /\ ret.value.session_length_distribution["15-30min"] = 1
    /\ ret.value.session_length_distribution["240min+"] = 1

\* Positions of the stored sessions that have more than one event.
MultiEventSessions == {k \in DOMAIN sessions : Len(sessions[k]) > 1}

\* Adjacent pairs with the same artist over events - 1, for one session.
SamePairRatio(session) ==
    [num |-> Cardinality({i \in 1..(Len(session) - 1) :
                             session[i].artistName = session[i + 1].artistName}),
     den |-> Len(session) - 1]

\* Distinct artists over events, for one session.
DistinctRatio(session) ==
    [num |-> Cardinality({session[i].artistName : i \in DOMAIN session}),
     den |-> Len(session)]

\* The sum of ratioOf[k] over the positions k of todo, one after the other
\* as a / b + c / d = (a * d + c * b) / (b * d).
RECURSIVE SumOfRatios(_, _)
SumOfRatios(ratioOf, todo) ==
    IF todo = {} THEN [num |-> 0, den |-> 1]
    ELSE LET k == CHOOSE x \in todo : TRUE
             rest == SumOfRatios(ratioOf, todo \ {k})
         IN  [num |-> rest.num * ratioOf[k].den + ratioOf[k].num * rest.den,
              den |-> rest.den * ratioOf[k].den]

\* avg = sum / count, and avg = 0 when count = 0.
IsMean(avg, sum, count) ==
    /\ avg.den > 0
    /\ IF count = 0 THEN avg.num = 0
       ELSE avg.num * sum.den * count = sum.num * avg.den

\* C19: avg_artist_continuity is the mean, over the sessions with more than
\* one event only, of same-artist adjacent pairs / (events - 1), and
\* avg_unique_artists_ratio the mean over the same sessions of distinct
\* artists / events; single-event sessions count in neither, both are 0
\* when no session has more than one event, and both lie in 0..1.
C19_ContentAverages ==
    (ContentAnalysed /\ sessions # <<>>) =>
        /\ IsMean(ret.avg_artist_continuity,
                  SumOfRatios([k \in DOMAIN sessions |-> SamePairRatio(sessions[k])],
                              MultiEventSessions),
                  Cardinality(MultiEventSessions))
        /\ IsMean(ret.avg_unique_artists_ratio,
                  SumOfRatios([k \in DOMAIN sessions |-> DistinctRatio(sessions[k])],
                              MultiEventSessions),
                  Cardinality(MultiEventSessions))
        /\ 0 <= ret.avg_artist_continuity.num
        /\ ret.avg_artist_continuity.num <= ret.avg_artist_continuity.den
        /\ 0 <= ret.avg_unique_artists_ratio.num
        /\ ret.avg_unique_artists_ratio.num <= ret.avg_unique_artists_ratio.den

\* A single-event session next to a session whose continuity is neither 0
\* nor 1.
C19_Witness ==
    /\ ContentAnalysed
    /\ \E k \in DOMAIN sessions : Len(sessions[k]) = 1
    /\ MultiEventSessions # {}
    /\ 0 < ret.avg_artist_continuity.num
    /\ ret.avg_artist_continuity.num < ret.avg_artist_continuity.den
    /\ ret.avg_unique_artists_ratio.num < ret.avg_unique_artists_ratio.den

\* The labels of the rows of the table.
LabelsOf(table) == {table[i].context : i \in DOMAIN table}

\* C20: on a non-empty table that categorize_listening_contexts can label
\* (end timestamp, minutes played, hour and weekday index), context_statistics
\* returns without error the four entries distribution, by_time, by_hour and
\* by_weekday; distribution[c] is the number of events labelled c over the
\* number of events, the proportions sum to 1, and five events with five
\* different labels get 1/5 each.
C20_ContextStatistics ==
    (ret.op = "context_statistics" /\ Len(df) > 0) =>
        /\ ret.raised = "none"
        /\ DOMAIN ret.value = {"distribution", "by_time", "by_hour", "by_weekday"}
        /\ DOMAIN ret.value.distribution = LabelsOf(df)
        /\ \A c \in LabelsOf(df) :
             ret.value.distribution[c].num * Len(df)
               = Cardinality({i \in DOMAIN df : df[i].context = c})
                   * ret.value.distribution[c].den
        /\ Cardinality(LabelsOf(df)) = Len(df) =>
             \A c \in LabelsOf(df) :
                 ret.value.distribution[c].num * Len(df)
                   = ret.value.distribution[c].den

\* The features of the stored model that the caller of the last
\* predict_context did not pass.
Omitted(model, kwargs) ==
    {model.fitted_on[k] : k \in DOMAIN model.fitted_on} \ DOMAIN kwargs

\* C21: whenever the caller of predict_context omits a feature the model
\* was trained with, the call fails with an error that names an omitted
\* feature, returns no label (no default stands in for the feature), and
\* leaves the trained model and its feature list as they were.
C21_MissingFeatureFails ==
    [][(/\ ret'.op = "predict_context"
        /\ context_model'.stored
        /\ Omitted(context_model', ret'.kwargs) # {}) =>
          /\ ret'.raised = "ValueError"
          /\ ret'.why = "missing feature"
          /\ ret'.missing \in Omitted(context_model', ret'.kwargs)
          /\ "value" \notin DOMAIN ret'
          /\ "passed" \notin DOMAIN ret'
          /\ context_model.stored =>
                /\ context_model' = context_model
                /\ context_features' = context_features]_vars

C21_Witness ==
    /\ ret.op = "predict_context"
    /\ ret.had
    /\ ret.raised = "ValueError"
    /\ ret.why = "missing feature"
    /\ ret.missing = "tempo"
    /\ context_model.fitted_on = <<"hour", "weekday", "energy", "tempo">>

TrainingFeatures ==
    {"hour", "weekday", "energy", "tempo", "danceability", "valence"}

\* A row with a value in every feature column of cols and with a label.
IsComplete(row, cols) ==
    /\ \A f \in cols \cap TrainingFeatures : cell(row, f) # NaN
    /\ row.context # NoContext

\* C22: train_context_predictor fails, and stores no model, when fewer than
\* two feature columns are available or when no row is left after the rows
\* with a missing feature value or a missing label are put aside; a row
\* with a missing value is never among the rows the model is fitted on.
C22_TrainingFailures ==
    [][(ret'.op = "train_context_predictor") =>
          /\ (\/ Cardinality(columns' \cap TrainingFeatures) < 2
              \/ ~\E i \in DOMAIN df' : IsComplete(df'[i], columns')) =>
                /\ ret'.raised # "none"
                /\ context_model' = context_model
                /\ context_features' = context_features
          /\ (ret'.raised = "none") =>
                /\ ret'.rows # <<>>
                /\ \A i \in DOMAIN ret'.rows : IsComplete(ret'.rows[i], columns')]_vars

\* A labelled table with one feature column only, and a complete row.
C22_Witness ==
    /\ ret.op = "train_context_predictor"
    /\ ret.raised = "ValueError"
    /\ columns \cap TrainingFeatures = {"energy"}
    /\ \E i \in DOMAIN df : IsComplete(df[i], columns)
    /\ ~context_model.stored

\* C23: the features of every model that train_context_predictor produces
\* are hour and weekday followed by exactly those of energy, tempo,
\* danceability and valence that are columns of the table, also for a
\* table that already carries a context column.
C23_HourAndWeekdayAlways ==
    context_model.stored =>
        context_model.fitted_on
          = <<"hour", "weekday">> \o SelectSeq(AudioFeatures, LAMBDA f : f \in columns)

\* C24: whenever a model is stored, the feature list is stored with it and
\* is exactly the ordered list of columns the model was fitted on, and a
\* successful predict_context has passed the caller's values to the model
\* in that order.
C24_FeaturesMatchModel ==
    context_model.stored =>
        /\ context_features # NoFeatures
        /\ context_features = context_model.fitted_on
        /\ (ret.op = "predict_context" /\ ret.raised = "none") =>
              ret.passed = [i \in DOMAIN context_model.fitted_on |->
                               ret.kwargs[context_model.fitted_on[i]]]

\* A prediction answered by a model that an earlier call had stored, fitted
\* on the calendar columns and two audio features.
C24_Witness ==
    /\ context_model.stored
    /\ ret.op = "predict_context" /\ ret.raised = "none" /\ ret.had
    /\ context_model.fitted_on = <<"hour", "weekday", "energy", "tempo">>
    /\ ret.passed = <<7, 0, 85, 150>>

\* C28: a call of train_context_predictor or predict_context that fails
\* leaves a previously trained model and its feature list exactly as they
\* were; the stored model is replaced only by a training that completed,
\* called directly, by predict_context when no model is stored, or by the
\* dashboard's demo.
C28_FailureKeepsModel ==
    [][/\ (ret'.op \in {"train_context_predictor", "predict_context"}
             /\ ret'.raised # "none" /\ context_model.stored)
          => (context_model' = context_model /\ context_features' = context_features)
       /\ (context_model' # context_model \/ context_features' # context_features)
          => (\/ ret'.op = "train_context_predictor" /\ ret'.raised = "none"
              \/ /\ ret'.op = "predict_context" /\ ~context_model.stored
                 /\ (ret'.raised = "none" \/ ret'.why = "missing feature")
              \/ /\ ret'.op = "context_prediction_demo"
                 /\ (ret'.raised = "none" \/ ret'.why = "missing feature"))]_vars

\* A training that failed on its rows although a model was stored: the
\* table was enriched after the model had been trained, and no track has
\* audio features.
C28_Witness ==
    /\ ret.op = "train_context_predictor"
    /\ ret.raised = "ValueError"
    /\ ret.had
    /\ context_model.stored
    /\ context_model.fitted_on = <<"hour", "weekday">>

\* C30: after categorize_listening_contexts, for hours 0 to 23, an event
\* is labelled work only if it falls on a weekday with its hour in 10..15;
\* weekday events of the hours 9, 16 and 17 are labelled workout or
\* commute, never work.
C30_WorkHours ==
    ("context" \in columns) =>
        \A i \in DOMAIN df :
           LET h == hour(df[i].endTime)
               wd == weekday(df[i].endTime)
           IN  /\ df[i].context = "work" => (wd < 5 /\ h \in 10..15)
               /\ (wd < 5 /\ h \in {9, 16, 17})
                     => df[i].context \in {"workout", "commute"}

\* A weekday event of hour 9 with moderate energy, labelled commute.
C30_Witness ==
    /\ "context" \in columns
    /\ \E i \in DOMAIN df :
         /\ weekday(df[i].endTime) < 5 /\ hour(df[i].endTime) = 9
         /\ df[i].context = "commute"
         /\ "energy" \in columns /\ FLt(df[i].energy, HighEnergy)

\* C29: in the dashboard's prediction demo, the prediction that follows a
\* successful training supplies a value for every feature the model was
\* trained with, whatever audio-feature columns the table has: the demo
\* never ends with the missing-feature error.
C29_DemoSuppliesEveryFeature ==
    ret.op = "context_prediction_demo" =>
        ~(ret.raised = "ValueError" /\ ret.why = "missing feature")

\* What a report says when it is computed from the sessions sess.
ReportsOn(r, sess) ==
    /\ r.raised = "none"
    /\ CASE r.op = "session_statistics" -> r.value = statistics(sess)
         [] r.op = "session_patterns" -> r.value = patterns(sess)
         [] r.op = "session_content_analysis" ->
               /\ r.session_types = Counter(session_types(sess))
               /\ r.avg_artist_continuity = mean_or_zero(artist_continuity(sess))
               /\ r.avg_unique_artists_ratio = mean_or_zero(unique_artists_ratio(sess))

IsReport(r) ==
    r.op \in {"session_statistics", "session_patterns", "session_content_analysis"}

\* C27: session_statistics, session_patterns and session_content_analysis
\* reuse a stored non-empty session list and leave it unchanged; called
\* right after detect_sessions(g), whatever g was, they report on exactly
\* the sessions that call returned; they run detect_sessions with the
\* default threshold only when no session list is stored.
C27_ReportsReuseStoredSessions ==
    [][(IsReport(ret') /\ hasSessions /\ sessions # <<>>) =>
         /\ sessions' = sessions /\ hasSessions'
         /\ ReportsOn(ret', sessions)
         /\ ret.op = "detect_sessions" => sessions = ret.value]_vars

\* The events of the table with the label context and the names of entry.
EventsOf(entry, context) ==
    {i \in DOMAIN df : /\ df[i].context = context
                       /\ df[i].trackName = entry.track
                       /\ df[i].artistName = entry.artist}

\* The place of an entry's (track, artist) pair in the order of the grouping.
KeyIndex(entry) ==
    CHOOSE k \in DOMAIN GroupKeys :
        GroupKeys[k].track = entry.track /\ GroupKeys[k].artist = entry.artist

\* C25: suggest_for_context(context, limit) returns at most limit entries,
\* one per distinct (track, artist) pair that has an event with that
\* context, each with the number of those events as count; they are the
\* pairs of the highest counts in non-increasing count order, pairs of
\* equal count in the order of the grouping; the list is empty when no
\* event has that context.
C25_Suggestions ==
    (ret.op = "suggest_for_context" /\ ret.raised = "none") =>
        LET value == ret.value
            pairs == {k \in DOMAIN GroupKeys :
                         EventsOf(GroupKeys[k], ret.context) # {}}
        IN  /\ Len(value) <= ret.limit
            /\ Len(value) = Min({ret.limit, Cardinality(pairs)})
            /\ \A i \in DOMAIN value :
                  /\ value[i].count = Cardinality(EventsOf(value[i], ret.context))
                  /\ value[i].count > 0
                  /\ \A k \in pairs :
                        (\A j \in DOMAIN value : KeyIndex(value[j]) # k)
                           => Cardinality(EventsOf(GroupKeys[k], ret.context))
                                 <= value[i].count
            /\ \A i, j \in DOMAIN value :
                  i < j => \/ value[i].count > value[j].count
                           \/ /\ value[i].count = value[j].count
                              /\ KeyIndex(value[i]) < KeyIndex(value[j])
            /\ (pairs = {}) => value = <<>>

\* C26: a model trained on the rule-labelled test table predicts workout
\* for (energy 0.85, tempo 150, hour 7, weekday 0) and relaxation for
\* (energy 0.2, tempo 85, hour 22, weekday 3), on every run.
C26_TestPredictions ==
    (ret.op = "predict_context" /\ ret.raised = "none") =>
        /\ ret.kwargs.hour = 7 => ret.value = "workout"
        /\ ret.kwargs.hour = 22 => ret.value = "relaxation"

==============================================================================
